---- MODULE Spec2Model ----
(***************************************************************************)
(* Model of zed/src/worktree/worktree.rs: the background scan of a         *)
(* Worktree (scan_dirs, the 16 scan_dir workers around one crossbeam       *)
(* channel, insert_dir / insert_file under the write lock), the state      *)
(* readers observe between two lock acquisitions, the read accessors       *)
(* (entry_path, abs_entry_path, file, skip_prefix of match_paths), the     *)
(* traversal of Iter and FilesIter, the content calls load_history and     *)
(* save, and the RwLock that readers and the scan share.                   *)
(*                                                                         *)
(* The file system is an input.  It is a finite tree of nodes; what the    *)
(* program learns about a node is what fs::metadata / DirEntry::metadata   *)
(* and the ignore matcher report: a name, a kind, st_ino, the symlink bit  *)
(* and whether an ignore pattern matches the path.  st_ino is the only     *)
(* identity the program keeps, so two nodes may carry the same number (a   *)
(* hard link, or two devices below one root).                              *)
(***************************************************************************)
EXTENDS Integers, Sequences, FiniteSets, TLC

(***************************************************************************)
(* Constants of the program and bounds of the model                        *)
(***************************************************************************)
\* Option::None for a parent id or for root_ino; inode numbers are >= 1.
None == 0

\* Parallel::each(0..16, ..): the size of the worker pool.
NumWorkers == 16

\* How many transient I/O failures (beyond a tree's unreadable directories)
\* one run may inject.
MaxFaults == 2

\* How many load_history / save calls the clients make in one run.
MaxCalls == 3

\* How many trees one match_paths call is given, at most.
MaxTrees == 2

(***************************************************************************)
(* File systems                                                            *)
(***************************************************************************)
Node(name, kind, ino, par, pat, sym) ==
    [name |-> name, kind |-> kind, ino |-> ino, par |-> par, pat |-> pat, sym |-> sym]

\* A case is the root path the Worktree was constructed with (its components,
\* "/" first when it is absolute) and the nodes below it; node 1 is what the
\* root path resolves to, and a node's par is the index of its parent node.
D(name, ino, par) == Node(name, "dir", ino, par, FALSE, FALSE)
F(name, ino, par) == Node(name, "file", ino, par, FALSE, FALSE)

\* test_populate_and_search: root reached through the symlink root_link.
FsPopulate ==
    [path |-> << "/", "tmp", "root_link" >>,
     nodes |-> << Node("root_link", "dir", 1, 0, FALSE, TRUE),
                  F("apple", 2, 1),
                  D("banana", 3, 1),
                  D("carrot", 4, 3),
                  F("date", 5, 4),
                  F("endive", 6, 4),
                  D("fennel", 7, 1),
                  F("grape", 8, 7) >>,
     denied |-> {}, inject |-> TRUE]

\* test_rescan: dir1/file and an empty dir2.
FsRescan ==
    [path |-> << "/", "tmp" >>,
     nodes |-> << D("tmp", 1, 0), D("dir1", 2, 1), F("file", 3, 2), D("dir2", 4, 1) >>,
     denied |-> {}, inject |-> TRUE]

\* The root path is a regular file.
FsRootFile ==
    [path |-> << "/", "tmp", "file1" >>,
     nodes |-> << F("file1", 1, 0) >>, denied |-> {}, inject |-> TRUE]

\* One file hard-linked into two directories: both names report one st_ino.
FsHardLink ==
    [path |-> << "root" >>,
     nodes |-> << D("root", 1, 0), D("a", 2, 1), F("f", 9, 2), D("b", 3, 1), F("g", 9, 4) >>,
     denied |-> {}, inject |-> TRUE]

\* A second device mounted below the root: st_ino is unique per device only,
\* and the root directory of a device has the same number on both.
FsMount ==
    [path |-> << "/", "home", "root" >>,
     nodes |-> << D("root", 2, 0), D("mnt", 2, 1), F("f", 3, 2), F("h", 4, 1) >>,
     denied |-> {}, inject |-> TRUE]

\* The root itself is named .git.
FsGitRoot ==
    [path |-> << "/", "repo", ".git" >>,
     nodes |-> << D(".git", 1, 0), F("HEAD", 2, 1), D("refs", 3, 1), F("main", 4, 3) >>,
     denied |-> {}, inject |-> TRUE]

\* A repository: .git, a directory matched by an ignore pattern, a matched
\* file and unmatched entries below them.
FsIgnore ==
    [path |-> << "repo" >>,
     nodes |-> << D("repo", 1, 0),
                  D(".git", 2, 1),
                  F("HEAD", 3, 2),
                  Node("target", "dir", 4, 1, TRUE, FALSE),
                  D("debug", 5, 4),
                  F("bin", 6, 5),
                  Node("log", "file", 7, 1, TRUE, FALSE),
                  Node("link", "file", 8, 1, FALSE, TRUE) >>,
     denied |-> {}, inject |-> TRUE]

\* The root is matched by a pattern of an ancestor's ignore file.
FsIgnoredRoot ==
    [path |-> << "/", "repo", "build" >>,
     nodes |-> << Node("build", "dir", 1, 0, TRUE, FALSE),
                  Node("log", "file", 5, 1, TRUE, FALSE), F("out", 2, 1), D("obj", 3, 1),
                  F("o", 4, 4) >>,
     denied |-> {}, inject |-> TRUE]

\* Seventeen subdirectories, sixteen of them unreadable (read_dir fails).
FsWide ==
    [path |-> << "/", "home", "root" >>,
     nodes |-> << D("root", 1, 0) >>
               \o [i \in 1..17 |-> D(ToString(i), i + 1, 1)]
               \o << F("x", 19, 18) >>,
     denied |-> { <<"list", n>> : n \in 2..17 },
     inject |-> FALSE]

\* A directory hard-linked into two directories (HFS+ allows it): the same
\* st_ino, and the same children, below a and below b.
FsDirLink ==
    [path |-> << "/", "home", "root" >>,
     nodes |-> << D("root", 1, 0), F("r", 9, 1), D("a", 2, 1), D("x", 7, 3), F("k", 8, 4),
                  D("b", 4, 1), D("x", 7, 6), F("k", 8, 7) >>,
     denied |-> {}, inject |-> TRUE]

\* Two devices: directory a on the first and file f on the second report
\* the same st_ino.
FsCrossDev ==
    [path |-> << "/", "home", "root" >>,
     nodes |-> << D("root", 1, 0), F("r", 7, 1), F("s", 8, 1), D("a", 5, 1), F("p", 6, 4),
                  D("mnt", 2, 1), F("f", 5, 6) >>,
     denied |-> {}, inject |-> TRUE]

\* The root path is the root of the file system: it has no file name.
FsSlash ==
    [path |-> << "/" >>,
     nodes |-> << D("/", 1, 0), D("etc", 2, 1), F("fstab", 3, 2), F("x", 4, 1) >>,
     denied |-> {}, inject |-> TRUE]

\* The root path ends in "..": /home/proj/.. is /home, and has no file name.
FsParent ==
    [path |-> << "/", "home", "proj", ".." >>,
     nodes |-> << D("/", 1, 0), D("proj", 2, 1), F("x", 3, 1) >>,
     denied |-> {}, inject |-> TRUE]

\* test_save_file: a directory that holds file1.
FsSaveFile ==
    [path |-> << "/", "tmp" >>,
     nodes |-> << D("tmp", 1, 0), F("file1", 2, 1) >>,
     denied |-> {}, inject |-> TRUE]

FsCases ==
    << FsPopulate, FsRescan, FsRootFile, FsHardLink, FsMount, FsGitRoot, FsIgnore,
       FsIgnoredRoot, FsWide, FsDirLink, FsCrossDev, FsSlash, FsParent, FsSaveFile >>

VARIABLES
    fsId,        \* which file system this run scans
    faults,      \* the I/O calls that fail in this run
    pc,          \* the position of the thread spawned by Worktree::new
    entries,     \* WorktreeState.entries
    file_paths,  \* WorktreeState.file_paths
    root_ino,    \* WorktreeState.root_ino
    scan_state,  \* the value held by WorktreeState.scan_state
    dirs_to_scan,
                 \* the messages in the channel of DirToScan jobs (the queue)
    senders,     \* the live Sender handles of that channel
    waiting,     \* workers at rx.recv()
    active,      \* the DirToScan jobs inside scan_dir, with their progress
    exitedOk,    \* workers whose closure returned Ok(())
    exitedErr,   \* workers whose closure returned Err
    recvCount,   \* history: how often each node's job was received
    scanned,     \* history: the nodes whose scan_dir returned Ok
    idleWrites,  \* history: how often Idle was written
    marked,      \* history: node -> the is_ignored flag it was inserted with
    insertedBy,  \* history: id -> the node whose scan_dir inserted the entry
                 \*          now stored under it (0: scan_dirs itself)
    finalizedBy, \* history: id -> the node whose scan_dir wrote the child
                 \*          list of the entry now stored under it
    moved,       \* the file system: << f, d >> once file node f was renamed
                 \*          into directory node d, << >> before
    disk,        \* the file system: st_ino of a regular file -> its text
    histories,   \* WorktreeState.histories: id -> base text
    tasks,       \* the load_history futures and save tasks, in call order
    calls        \* the read accessor calls of the clients, in call order, with
                 \*          each call's position at the RwLock

\* The input of a run, the history variables, and all variables.
input == << fsId, faults >>
hist == << recvCount, scanned, idleWrites, marked, insertedBy, finalizedBy >>
files == << moved, disk, histories, tasks >>
vars == << fsId, faults, pc, entries, file_paths, root_ino, scan_state, dirs_to_scan, senders,
           waiting, active, exitedOk, exitedErr, recvCount, scanned, idleWrites, marked,
           insertedBy, finalizedBy, moved, disk, histories, tasks, calls >>

FS == FsCases[fsId]
Nodes == 1..Len(FS.nodes)
Root == 1
NodeOf(n) == FS.nodes[n]
IsDir(n) == NodeOf(n).kind = "dir"

Range(q) == { q[i] : i \in 1..Len(q) }

\* fs::read_dir(path): the children of a directory, in listing order.
RECURSIVE ChildrenFrom(_, _)
ChildrenFrom(d, n) ==
    IF n > Len(FS.nodes) THEN << >>
    ELSE IF NodeOf(n).par = d THEN << n >> \o ChildrenFrom(d, n + 1)
    ELSE ChildrenFrom(d, n + 1)

read_dir(d) == ChildrenFrom(d, 1)

(***************************************************************************)
(* Paths.  A PathBuf is the sequence of its components; an absolute path   *)
(* starts with the component "/".                                          *)
(***************************************************************************)
\* Path::file_name: Some(the last component) when it is a normal one; None
\* for the empty path, for "/" and for a path that ends in "..".  The Option
\* is a sequence of no or one name.
file_name(path) ==
    IF path = << >> \/ path[Len(path)] \in {"/", ".."} THEN << >>
    ELSE << path[Len(path)] >>

\* PathBuf::pop: drop the last component; "/" and the empty path stay.
pop(path) ==
    IF path = << >> \/ path[Len(path)] = "/" THEN path
    ELSE SubSeq(path, 1, Len(path) - 1)

\* PathBuf::push / Path::join: an absolute path replaces the receiver.
join(path, other) ==
    IF other # << >> /\ other[1] = "/" THEN other ELSE path \o other

\* let name = path.file_name()...unwrap_or("/") in scan_dirs
root_name ==
    IF file_name(FS.path) = << >> THEN "/" ELSE file_name(FS.path)[1]

\* The name the program stores for node n.
name_of(n) == IF n = Root THEN root_name ELSE NodeOf(n).name

\* to_scan.relative_path.join(&name): PathBuf::from(&name) for the root,
\* then the names from the root down to n.
RECURSIVE relative_path(_)
relative_path(n) ==
    IF NodeOf(n).par = 0 THEN << root_name >>
    ELSE join(relative_path(NodeOf(n).par), << NodeOf(n).name >>)

FaultPoints(id) ==
    LET ns == 1..Len(FsCases[id].nodes)
    IN  { <<"stat", n>> : n \in ns }
        \cup { <<"list", n>> : n \in { m \in ns : FsCases[id].nodes[m].kind = "dir" } }


(***************************************************************************)
(* The Entry Store: Entry, insert_dir, insert_file, the finalize of        *)
(* scan_dir                                                                *)
(***************************************************************************)
DirEntry(parent, name, ino, is_symlink, is_ignored) ==
    [tag |-> "Dir", parent |-> parent, name |-> name, ino |-> ino,
     is_symlink |-> is_symlink, is_ignored |-> is_ignored, children |-> << >>]

FileEntry(parent, name, ino, is_symlink, is_ignored) ==
    [tag |-> "File", parent |-> parent, name |-> name, ino |-> ino,
     is_symlink |-> is_symlink, is_ignored |-> is_ignored]

\* PathEntry; lowercase_path and path_chars are functions of path.
PathEntry(ino, path, is_ignored) ==
    [ino |-> ino, path |-> path, is_ignored |-> is_ignored]

\* HashMap::insert: the entry under an id already present is replaced.
MapInsert(ents, ino, e) ==
    [i \in DOMAIN ents \cup {ino} |-> IF i = ino THEN e ELSE ents[i]]

insert_dir(ents, parent, name, ino, is_symlink, is_ignored) ==
    MapInsert(ents, ino, DirEntry(parent, name, ino, is_symlink, is_ignored))

insert_file(ents, parent, name, ino, is_symlink, is_ignored) ==
    MapInsert(ents, ino, FileEntry(parent, name, ino, is_symlink, is_ignored))

\* The bug of an insert_file that appends no search record.
PushPathSkipped(paths, ino, path, is_ignored) == paths

PushPath(paths, ino, path, is_ignored) ==
    Append(paths, PathEntry(ino, path, is_ignored))

\* if let Some(Entry::Dir { children, .. }) = entries.get_mut(&ino) { *children = new }
FinalizeChildren(ents, ino, new_children) ==
    IF ino \in DOMAIN ents /\ ents[ino].tag = "Dir"
    THEN [ents EXCEPT ![ino].children = new_children]
    ELSE ents

(***************************************************************************)
(* The ignore decisions of scan_dirs and scan_dir.  An ignore context is   *)
(* Option<Ignore>: TRUE models Some, FALSE models None.                    *)
(***************************************************************************)
\* ignore.matched(path, is_dir).is_ignore()
matched(n) == NodeOf(n).pat

RootIgnored(n) ==
    IF IsDir(n) THEN matched(n) \/ root_name = ".git" ELSE matched(n)

\* scan_dirs sends the root job with ignore: Some(ignore).
RootContext(n) == TRUE

DirIgnored(ctx, n) ==
    IF ctx THEN matched(n) \/ NodeOf(n).name = ".git" ELSE TRUE

ChildContext(ctx, n) ==
    IF ctx THEN ~DirIgnored(ctx, n) ELSE FALSE

FileIgnored(ctx, n) ==
    IF ctx THEN matched(n) ELSE TRUE

(***************************************************************************)
(* The channel of DirToScan jobs.  Every job owns one Sender; recv fails   *)
(* once the channel is empty and no Sender is left.                        *)
(***************************************************************************)
DirToScan(ino, n, ctx) == [ino |-> ino, node |-> n, ignore |-> ctx]

RecvFails(q, s) == q = << >> /\ s = 0

\* The bug of leaving out drop(tx): scan_dirs keeps a Sender of its own.
SendersAfterStartTxKept == 1 + 1

\* tx.send(root job with tx.clone()); drop(tx)
SendersAfterStart == 1

\* The bug of sending a job that owns no Sender of its own.
SendersAfterSendNoClone(s) == s

\* to_scan.dirs_to_scan.clone() moved into the job that is sent
SendersAfterSend(s) == s + 1

\* a DirToScan is dropped when scan_dir returns
SendersAfterDrop(s) == s - 1

\* The bug of a join that returns at the first worker error.
AllExitedFailFast == exitedErr > 0 \/ exitedOk + exitedErr = NumWorkers

\* Parallel::run() returns once every worker thread has been joined.
AllExited == exitedOk + exitedErr = NumWorkers

(***************************************************************************)
(* History: which call inserted or finalized what                          *)
(***************************************************************************)
Drop(f, k) == [i \in DOMAIN f \ {k} |-> f[i]]

\* An insert under id `ino` for node n by the scan_dir of node `by`: the
\* entry under ino is new, so no scan_dir has written its child list.
NoteInsert(n, ino, by, is_ignored) ==
    /\ marked' = MapInsert(marked, n, is_ignored)
    /\ insertedBy' = MapInsert(insertedBy, ino, by)
    /\ finalizedBy' = Drop(finalizedBy, ino)

\* The finalize of scan_dir for node `by` under id `ino`: it writes a child
\* list only when the entry under ino is a Dir.
NoteFinalize(ino, by) ==
    /\ finalizedBy' = IF ino \in DOMAIN entries /\ entries[ino].tag = "Dir"
                      THEN MapInsert(finalizedBy, ino, by)
                      ELSE finalizedBy
    /\ UNCHANGED << marked, insertedBy >>

(***************************************************************************)
(* The read accessors, as functions of the state a reader locks.  A        *)
(* Result is a record: Ok with its value, or Err.                          *)
(***************************************************************************)
Ok(v) == [tag |-> "Ok", val |-> v]
Err(v) == [tag |-> "Err", val |-> v]

\* A call that never returns: the loop of entry_path on a parent cycle.
Diverges(v) == [tag |-> "Diverges", val |-> v]

has_entry(entry_id) == entry_id \in DOMAIN entries

entry_count == Cardinality(DOMAIN entries)

file_count == Len(file_paths)

\* root_ino.and_then(|root_ino| entries.get(&root_ino)), an Option.
root_entry ==
    IF root_ino # None /\ root_ino \in DOMAIN entries THEN << entries[root_ino] >>
    ELSE << >>

\* The loop of entry_path: push the entry, follow entry.parent().  found is
\* the Vec of entries pushed so far; an id met for the second time is met
\* forever.
RECURSIVE parent_chain(_, _)
parent_chain(entry_id, found) ==
    IF entry_id \notin DOMAIN entries THEN Err(<< >>)
    ELSE IF \E i \in 1..Len(found) : found[i].ino = entry_id THEN Diverges(<< >>)
    ELSE IF entries[entry_id].parent # None
         THEN parent_chain(entries[entry_id].parent, Append(found, entries[entry_id]))
         ELSE Ok(Append(found, entries[entry_id]))

\* for entry in entries.into_iter().rev() { path.push(entry.name()) }
RECURSIVE push_names(_, _)
push_names(found, i) ==
    IF i > Len(found) THEN << >>
    ELSE join(push_names(found, i + 1), << found[i].name >>)

entry_path(entry_id) ==
    LET chain == parent_chain(entry_id, << >>)
    IN  IF chain.tag = "Ok" THEN Ok(push_names(chain.val, 1)) ELSE chain

abs_entry_path(entry_id) ==
    LET path == entry_path(entry_id)
    IN  IF path.tag = "Ok" THEN Ok(join(pop(FS.path), path.val)) ELSE path

\* WorktreeHandle::file: Ok(FileHandle { entry_id }) or Err.
file(entry_id) ==
    IF has_entry(entry_id) THEN Err(None) ELSE Ok(entry_id)

\* Result::unwrap: an Err panics.
unwrap(result) ==
    IF result.tag = "Err" THEN [tag |-> "Panic", val |-> result.val] ELSE result

\* FileHandle::path of the handle for entry_id.
FileHandle_path(entry_id) == unwrap(entry_path(entry_id))

\* name.chars().count() of the names in the file systems above.
chars(name) ==
    CASE name \in {"a", "b", "f", "g", "h", "k", "o", "p", "r", "s", "x", "/"} -> 1
      [] name \in {ToString(i) : i \in 1..9} -> 1
      [] name \in {ToString(i) : i \in 10..17} -> 2
      [] name \in {"tmp", "mnt", "bin", "log", "out", "obj", "etc"} -> 3
      [] name \in {"date", "dir1", "dir2", "file", "root", ".git", "HEAD", "refs", "main",
                   "repo", "link", "home", "proj"} -> 4
      [] name \in {"apple", "grape", "file1", "debug", "build", "fstab"} -> 5
      [] name \in {"banana", "carrot", "endive", "fennel", "target"} -> 6
      [] name = "root_link" -> 9

\* path.to_string_lossy().chars().collect(): the length of path_chars.  The
\* components are separated by one "/", which an absolute path starts with.
RECURSIVE path_chars_len(_)
path_chars_len(path) ==
    IF path = << >> THEN 0
    ELSE IF Len(path) = 1 THEN chars(path[1])
    ELSE IF path[1] = "/" THEN 1 + path_chars_len(Tail(path))
    ELSE chars(path[1]) + 1 + path_chars_len(Tail(path))

\* skip_prefix in match_paths, for one of the `trees` trees it was given.
skip_prefix(trees) ==
    IF trees = 1
    THEN IF root_entry # << >> /\ root_entry[1].tag = "Dir"
         THEN IF root_entry[1].name = "/" THEN 1 ELSE chars(root_entry[1].name) + 1
         ELSE 0
    ELSE 0

(***************************************************************************)
(* Traversal: Iter and FilesIter.  An Option is a sequence of no or one    *)
(* item; every call of next reads the state under the shared lock.         *)
(***************************************************************************)
Push(entry_id, entry) == [tag |-> "Push", entry_id |-> entry_id, entry |-> entry]
Pop == [tag |-> "Pop"]

IterStackEntry(entry_id, child_idx) == [entry_id |-> entry_id, child_idx |-> child_idx]

\* Worktree::iter
iter == [stack |-> << >>, started |-> FALSE]

\* Iter::next: the iterator after the call and the Option it returns.  The
\* index state.entries[&child_id] panics when the id is not in the map (the
\* child has been pushed on the stack by then).
Iter_next(self) ==
    IF ~self.started
    THEN IF root_entry # << >>
         THEN [self |-> [stack |-> << IterStackEntry(root_entry[1].ino, 0) >>,
                         started |-> TRUE],
               item |-> << Push(root_entry[1].ino, root_entry[1]) >>]
         ELSE [self |-> [self EXCEPT !.started = TRUE], item |-> << >>]
    ELSE IF self.stack = << >> THEN [self |-> self, item |-> << >>]
    ELSE LET top == Len(self.stack)
             parent == self.stack[top]
         IN  IF /\ parent.entry_id \in DOMAIN entries
                /\ entries[parent.entry_id].tag = "Dir"
                /\ parent.child_idx < Len(entries[parent.entry_id].children)
             THEN LET child_id == entries[parent.entry_id].children[parent.child_idx + 1]
                  IN  [self |-> [self EXCEPT
                                   !.stack = Append([@ EXCEPT ![top].child_idx = @ + 1],
                                                    IterStackEntry(child_id, 0))],
                       item |-> IF child_id \in DOMAIN entries
                                THEN << Push(child_id, entries[child_id]) >>
                                ELSE << [tag |-> "Panic"] >>]
             ELSE [self |-> [self EXCEPT !.stack = SubSeq(@, 1, top - 1)],
                   item |-> << Pop >>]

\* for event in tree.iter() { .. } on a tree that does not change meanwhile:
\* the events up to the first None.  A Push of an id that is on the stack
\* already starts the same events again below itself, without end.
RECURSIVE Iter_collect(_, _)
Iter_collect(self, events) ==
    LET r == Iter_next(self)
    IN  IF r.item = << >> THEN Ok(events)
        ELSE IF r.item[1].tag = "Panic" THEN [tag |-> "Panic", val |-> events]
        ELSE IF /\ r.item[1].tag = "Push"
                /\ \E i \in 1..Len(self.stack) :
                       self.stack[i].entry_id = r.item[1].entry_id
             THEN Diverges(events)
        ELSE Iter_collect(r.self, Append(events, r.item[1]))

FilesIterItem(entry_id, path) == [entry_id |-> entry_id, path |-> path]

\* FilesIter::next over the events of its Iter, from events[i] on, with
\* self.path = path: the items it returns.
RECURSIVE FilesIter_collect(_, _, _)
FilesIter_collect(events, i, path) ==
    IF i > Len(events) THEN << >>
    ELSE IF events[i].tag = "Pop" THEN FilesIter_collect(events, i + 1, pop(path))
    ELSE IF events[i].entry.tag = "Dir"
         THEN FilesIter_collect(events, i + 1, join(path, << events[i].entry.name >>))
    ELSE << FilesIterItem(events[i].entry_id, join(path, << events[i].entry.name >>)) >>
         \o FilesIter_collect(events, i + 1, join(path, << events[i].entry.name >>))

(***************************************************************************)
(* The file system below the root path, as load_history and save see it    *)
(***************************************************************************)
\* test_save_file: "the old contents"
InitialText == "the old contents"

\* The texts of the snapshots passed to save.
Buffers == { "a line of text", "another text" }

\* std::fs::File::create truncates the file.
Truncated == ""

DiskParent(n) == IF moved # << >> /\ moved[1] = n THEN moved[2] ELSE NodeOf(n).par

\* The absolute path at which node n is found on disk.
RECURSIVE disk_path(_)
disk_path(n) ==
    IF n = Root THEN FS.path ELSE Append(disk_path(DiskParent(n)), NodeOf(n).name)

\* The nodes a path names: one or none.
lookup(path) == { n \in Nodes : disk_path(n) = path }

\* File::open and read_to_string, or File::create, succeed on a regular file.
is_file_at(path) == \E n \in lookup(path) : ~IsDir(n)

ino_at(path) == NodeOf(CHOOSE n \in lookup(path) : TRUE).ino

(***************************************************************************)
(* Initial state: Worktree::new                                            *)
(***************************************************************************)
FaultSets(id) ==
    IF FsCases[id].inject
    THEN { FsCases[id].denied \cup x :
             x \in { y \in SUBSET FaultPoints(id) : Cardinality(y) <= MaxFaults } }
    ELSE { FsCases[id].denied }

Init ==
    /\ fsId \in 1..Len(FsCases)
    /\ faults \in FaultSets(fsId)
    /\ pc = "start"
    /\ entries = << >>
    /\ file_paths = << >>
    /\ root_ino = None
    /\ scan_state = "Scanning"
    /\ dirs_to_scan = << >>
    /\ senders = 0
    /\ waiting = 0
    /\ active = {}
    /\ exitedOk = 0
    /\ exitedErr = 0
    /\ recvCount = [n \in 1..Len(FsCases[fsId].nodes) |-> 0]
    /\ scanned = {}
    /\ idleWrites = 0
    /\ marked = << >>
    /\ insertedBy = << >>
    /\ finalizedBy = << >>
    /\ moved = << >>
    /\ disk = [i \in { FsCases[fsId].nodes[n].ino :
                        n \in { m \in 1..Len(FsCases[fsId].nodes) :
                                  FsCases[fsId].nodes[m].kind = "file" } } |-> InitialText]
    /\ histories = << >>
    /\ tasks = << >>
    /\ calls = << >>

(***************************************************************************)
(* scan_dirs, on the thread spawned by Worktree::new                       *)
(***************************************************************************)
\* fs::metadata(&path)? or fs::symlink_metadata(&path)? fails.
scan_dirs_metadata_fails ==
    /\ pc = "start"
    /\ <<"stat", Root>> \in faults
    /\ pc' = "set_idle"
    /\ UNCHANGED << input, files, calls, entries, file_paths, root_ino, scan_state, dirs_to_scan, senders,
                    waiting, active, exitedOk, exitedErr, hist >>

\* The root is a directory: insert it, send its job, drop tx, start the pool.
scan_dirs_root_dir ==
    /\ pc = "start"
    /\ <<"stat", Root>> \notin faults
    /\ IsDir(Root)
    /\ entries' = insert_dir(entries, None, root_name, NodeOf(Root).ino,
                            NodeOf(Root).sym, RootIgnored(Root))
    /\ scan_state' = "Scanning"
    /\ dirs_to_scan' = << DirToScan(NodeOf(Root).ino, Root, RootContext(Root)) >>
    /\ senders' = SendersAfterStart
    /\ waiting' = NumWorkers
    /\ pc' = "workers"
    /\ NoteInsert(Root, NodeOf(Root).ino, 0, RootIgnored(Root))
    /\ UNCHANGED << input, files, calls, file_paths, root_ino, active, exitedOk, exitedErr, recvCount,
                    scanned, idleWrites >>

\* The root is not a directory: insert_file, no channel, no pool.
scan_dirs_root_file ==
    /\ pc = "start"
    /\ <<"stat", Root>> \notin faults
    /\ ~IsDir(Root)
    /\ entries' = insert_file(entries, None, root_name, NodeOf(Root).ino,
                             NodeOf(Root).sym, RootIgnored(Root))
    /\ file_paths' = PushPath(file_paths, NodeOf(Root).ino, relative_path(Root),
                              RootIgnored(Root))
    /\ scan_state' = "Scanning"
    /\ pc' = "set_root"
    /\ NoteInsert(Root, NodeOf(Root).ino, 0, RootIgnored(Root))
    /\ UNCHANGED << input, files, calls, root_ino, dirs_to_scan, senders, waiting, active, exitedOk, exitedErr,
                    recvCount, scanned, idleWrites >>

\* Parallel::run() has joined every worker and one of them returned Err:
\* collect::<io::Result<()>>()? returns from scan_dirs before root_ino is set.
scan_dirs_collect_err ==
    /\ pc = "workers"
    /\ AllExited
    /\ exitedErr > 0
    /\ pc' = "set_idle"
    /\ UNCHANGED << input, files, calls, entries, file_paths, root_ino, scan_state, dirs_to_scan, senders,
                    waiting, active, exitedOk, exitedErr, hist >>

\* Parallel::run() has joined every worker and all returned Ok.
scan_dirs_collect_ok ==
    /\ pc = "workers"
    /\ AllExited
    /\ exitedErr = 0
    /\ pc' = "set_root"
    /\ UNCHANGED << input, files, calls, entries, file_paths, root_ino, scan_state, dirs_to_scan, senders,
                    waiting, active, exitedOk, exitedErr, hist >>

\* self.0.write().root_ino = Some(ino)
scan_dirs_set_root_ino ==
    /\ pc = "set_root"
    /\ root_ino' = NodeOf(Root).ino
    /\ pc' = "set_idle"
    /\ UNCHANGED << input, files, calls, entries, file_paths, scan_state, dirs_to_scan, senders, waiting,
                    active, exitedOk, exitedErr, hist >>

\* tree.set_scan_state(ScanState::Idle), after scan_dirs returned Ok or Err.
set_scan_state_idle ==
    /\ pc = "set_idle"
    /\ scan_state' = "Idle"
    /\ idleWrites' = idleWrites + 1
    /\ pc' = "done"
    /\ UNCHANGED << input, files, calls, entries, file_paths, root_ino, dirs_to_scan, senders, waiting, active,
                    exitedOk, exitedErr, recvCount, scanned, marked, insertedBy,
                    finalizedBy >>

(***************************************************************************)
(* The worker closure: while let Ok(result) = rx.recv() { scan_dir(..)? }  *)
(***************************************************************************)
\* rx.recv() returns a job and fs::read_dir(&to_scan.path) succeeds.
recv_scan_dir ==
    /\ waiting > 0
    /\ dirs_to_scan # << >>
    /\ LET job == Head(dirs_to_scan)
       IN  /\ <<"list", job.node>> \notin faults
           /\ active' = active \cup {[job |-> job, idx |-> 0, new_children |-> << >>]}
           /\ recvCount' = [recvCount EXCEPT ![job.node] = @ + 1]
    /\ dirs_to_scan' = Tail(dirs_to_scan)
    /\ waiting' = waiting - 1
    /\ UNCHANGED << input, files, calls, pc, entries, file_paths, root_ino, scan_state, senders,
                    exitedOk, exitedErr, scanned, idleWrites, marked, insertedBy,
                    finalizedBy >>

\* rx.recv() returns a job and fs::read_dir(&to_scan.path)? fails: scan_dir
\* returns Err, the job is dropped and the worker's closure returns Err.
recv_scan_dir_read_dir_fails ==
    /\ waiting > 0
    /\ dirs_to_scan # << >>
    /\ LET job == Head(dirs_to_scan)
       IN  /\ <<"list", job.node>> \in faults
           /\ recvCount' = [recvCount EXCEPT ![job.node] = @ + 1]
    /\ dirs_to_scan' = Tail(dirs_to_scan)
    /\ senders' = SendersAfterDrop(senders)
    /\ waiting' = waiting - 1
    /\ exitedErr' = exitedErr + 1
    /\ UNCHANGED << input, files, calls, pc, entries, file_paths, root_ino, scan_state, active,
                    exitedOk, scanned, idleWrites, marked, insertedBy, finalizedBy >>

NextChild(a) == read_dir(a.job.node)[a.idx + 1]

HasNextChild(a) == a.idx < Len(read_dir(a.job.node))

\* The bug of leaving out new_children.push(ino).
AdvanceNoPush(a, ino) ==
    [a EXCEPT !.idx = @ + 1]

\* new_children.push(ino), and the loop moves to the next directory entry.
Advance(a, ino) ==
    [a EXCEPT !.idx = @ + 1, !.new_children = Append(@, ino)]

\* child_entry.metadata()? fails: scan_dir returns Err before the finalize.
scan_dir_metadata_fails(a) ==
    /\ HasNextChild(a)
    /\ <<"stat", NextChild(a)>> \in faults
    /\ active' = active \ {a}
    /\ senders' = SendersAfterDrop(senders)
    /\ exitedErr' = exitedErr + 1
    /\ UNCHANGED << input, files, calls, pc, entries, file_paths, root_ino, scan_state, dirs_to_scan, waiting,
                    exitedOk, hist >>

\* A child directory: derive its ignore state, insert_dir, send its job.
scan_dir_child_dir(a) ==
    /\ HasNextChild(a)
    /\ LET c == NextChild(a)
       IN  /\ <<"stat", c>> \notin faults
           /\ IsDir(c)
           /\ entries' = insert_dir(entries, a.job.ino, NodeOf(c).name, NodeOf(c).ino,
                                   NodeOf(c).sym, DirIgnored(a.job.ignore, c))
           /\ scan_state' = "Scanning"
           /\ dirs_to_scan' = Append(dirs_to_scan, DirToScan(NodeOf(c).ino, c,
                                               ChildContext(a.job.ignore, c)))
           /\ senders' = SendersAfterSend(senders)
           /\ active' = (active \ {a}) \cup {Advance(a, NodeOf(c).ino)}
           /\ NoteInsert(c, NodeOf(c).ino, a.job.node, DirIgnored(a.job.ignore, c))
    /\ UNCHANGED << input, files, calls, pc, file_paths, root_ino, waiting, exitedOk, exitedErr,
                    recvCount, scanned, idleWrites >>

\* A child that is not a directory: derive its ignore state, insert_file.
scan_dir_child_file(a) ==
    /\ HasNextChild(a)
    /\ LET c == NextChild(a)
       IN  /\ <<"stat", c>> \notin faults
           /\ ~IsDir(c)
           /\ entries' = insert_file(entries, a.job.ino, NodeOf(c).name, NodeOf(c).ino,
                                    NodeOf(c).sym, FileIgnored(a.job.ignore, c))
           /\ file_paths' = PushPath(file_paths, NodeOf(c).ino, relative_path(c),
                                     FileIgnored(a.job.ignore, c))
           /\ scan_state' = "Scanning"
           /\ active' = (active \ {a}) \cup {Advance(a, NodeOf(c).ino)}
           /\ NoteInsert(c, NodeOf(c).ino, a.job.node, FileIgnored(a.job.ignore, c))
    /\ UNCHANGED << input, files, calls, pc, root_ino, dirs_to_scan, senders, waiting, exitedOk, exitedErr,
                    recvCount, scanned, idleWrites >>

\* The listing is exhausted: replace the child list, return Ok, drop the job
\* and go back to rx.recv().
scan_dir_finalize(a) ==
    /\ ~HasNextChild(a)
    /\ entries' = FinalizeChildren(entries, a.job.ino, a.new_children)
    /\ active' = active \ {a}
    /\ senders' = SendersAfterDrop(senders)
    /\ waiting' = waiting + 1
    /\ scanned' = scanned \cup {a.job.node}
    /\ NoteFinalize(a.job.ino, a.job.node)
    /\ UNCHANGED << input, files, calls, pc, file_paths, root_ino, scan_state, dirs_to_scan, exitedOk,
                    exitedErr, recvCount, idleWrites >>

\* rx.recv() returns Err: the channel is empty and disconnected.
worker_exit ==
    /\ waiting > 0
    /\ RecvFails(dirs_to_scan, senders)
    /\ waiting' = waiting - 1
    /\ exitedOk' = exitedOk + 1
    /\ UNCHANGED << input, files, calls, pc, entries, file_paths, root_ino, scan_state, dirs_to_scan, senders,
                    active, exitedErr, hist >>

(***************************************************************************)
(* load_history and save.  A call is a task: the future load_history       *)
(* returns, or the task save spawns on the background executor.  A task    *)
(* takes one step per lock acquisition or file operation.                  *)
(***************************************************************************)
Pending(v) == [tag |-> "Pending", val |-> v]

Task(op, entry_id, content, at, path, quiet) ==
    [op |-> op, id |-> entry_id, content |-> content, pc |-> at, path |-> path,
     fd |-> None, text |-> "", result |-> Pending(""), quiet |-> quiet]

Return(task, result) == [task EXCEPT !.pc = "done", !.result = result]

\* history: every earlier call has returned.
AllReturned == \A j \in 1..Len(tasks) : tasks[j].pc = "done"

\* The ids the callers pass: the st_ino of every regular file of the tree
\* (inserted or not) and of the root.
Ids == { NodeOf(n).ino : n \in { m \in Nodes : m = Root \/ ~IsDir(m) } }

\* if let Some(history) = histories.get(&entry_id) { return Ok(history.clone()) }
load_history(entry_id) ==
    /\ Len(tasks) < MaxCalls
    /\ tasks' = Append(tasks,
           IF entry_id \in DOMAIN histories
           THEN Return(Task("load", entry_id, "", "done", Pending(<< >>), AllReturned),
                       Ok(histories[entry_id]))
           ELSE Task("load", entry_id, "", "resolve", Pending(<< >>), AllReturned))
    /\ UNCHANGED << input, calls, pc, entries, file_paths, root_ino, scan_state, dirs_to_scan, senders,
                    waiting, active, exitedOk, exitedErr, hist, moved, disk, histories >>

\* let path = tree.abs_entry_path(entry_id)?;
load_history_abs_entry_path(k) ==
    /\ tasks[k].op = "load" /\ tasks[k].pc = "resolve"
    /\ LET path == abs_entry_path(tasks[k].id)
       IN  /\ path.tag # "Diverges"
           /\ tasks' = [tasks EXCEPT ![k] =
                  IF path.tag = "Ok" THEN [@ EXCEPT !.pc = "read", !.path = path]
                  ELSE Return(@, Err("entry does not exist in worktree"))]
    /\ UNCHANGED << input, calls, pc, entries, file_paths, root_ino, scan_state, dirs_to_scan, senders,
                    waiting, active, exitedOk, exitedErr, hist, moved, disk, histories >>

\* File::open(&path).await?; file.read_to_string(&mut base_text).await?;
load_history_read(k) ==
    /\ tasks[k].op = "load" /\ tasks[k].pc = "read"
    /\ tasks' = [tasks EXCEPT ![k] =
           IF is_file_at(@.path.val)
           THEN [@ EXCEPT !.pc = "insert", !.text = disk[ino_at(tasks[k].path.val)]]
           ELSE Return(@, Err("io"))]
    /\ UNCHANGED << input, calls, pc, entries, file_paths, root_ino, scan_state, dirs_to_scan, senders,
                    waiting, active, exitedOk, exitedErr, hist, moved, disk, histories >>

\* The bug of a cache that keeps the history inserted first.
histories_insert_if_absent(cache, entry_id, history) ==
    IF entry_id \in DOMAIN cache THEN cache ELSE MapInsert(cache, entry_id, history)

\* histories.insert(entry_id, history): HashMap::insert replaces.
histories_insert(cache, entry_id, history) ==
    MapInsert(cache, entry_id, history)

\* tree.0.write().histories.insert(entry_id, history.clone()); Ok(history)
load_history_insert(k) ==
    /\ tasks[k].op = "load" /\ tasks[k].pc = "insert"
    /\ histories' = histories_insert(histories, tasks[k].id, tasks[k].text)
    /\ tasks' = [tasks EXCEPT ![k] = Return(@, Ok(@.text))]
    /\ UNCHANGED << input, calls, pc, entries, file_paths, root_ino, scan_state, dirs_to_scan, senders,
                    waiting, active, exitedOk, exitedErr, hist, moved, disk >>

\* let path = self.abs_entry_path(entry_id); and the task is spawned.
save(entry_id, content) ==
    /\ Len(tasks) < MaxCalls
    /\ abs_entry_path(entry_id).tag # "Diverges"
    /\ tasks' = Append(tasks, Task("save", entry_id, content, "create",
                                   abs_entry_path(entry_id), AllReturned))
    /\ UNCHANGED << input, calls, pc, entries, file_paths, root_ino, scan_state, dirs_to_scan, senders,
                    waiting, active, exitedOk, exitedErr, hist, moved, disk, histories >>

\* std::fs::File::create(&path?)?: the file is opened and truncated.  (In
\* the trees the tasks run on, a path that names no node runs through a
\* regular file, so that no file can be created there.)
save_create(k) ==
    /\ tasks[k].op = "save" /\ tasks[k].pc = "create"
    /\ IF tasks[k].path.tag = "Ok" /\ is_file_at(tasks[k].path.val)
       THEN /\ disk' = [disk EXCEPT ![ino_at(tasks[k].path.val)] = Truncated]
            /\ tasks' = [tasks EXCEPT ![k] =
                   [@ EXCEPT !.pc = "write", !.fd = ino_at(tasks[k].path.val)]]
       ELSE /\ tasks' = [tasks EXCEPT ![k] =
                   Return(@, Err(IF @.path.tag = "Ok" THEN "io"
                                 ELSE "entry does not exist in worktree"))]
            /\ UNCHANGED disk
    /\ UNCHANGED << input, calls, pc, entries, file_paths, root_ino, scan_state, dirs_to_scan, senders,
                    waiting, active, exitedOk, exitedErr, hist, moved, histories >>

\* for chunk in content.fragments() { writer.write(..)? }  writer.flush()?
save_write(k) ==
    /\ tasks[k].op = "save" /\ tasks[k].pc = "write"
    /\ disk' = [disk EXCEPT ![tasks[k].fd] = tasks[k].content]
    /\ tasks' = [tasks EXCEPT ![k] = Return(@, Ok(""))]
    /\ UNCHANGED << input, calls, pc, entries, file_paths, root_ino, scan_state, dirs_to_scan, senders,
                    waiting, active, exitedOk, exitedErr, hist, moved, histories >>

(***************************************************************************)
(* The file system changes under the tree: test_rescan's                   *)
(* std::fs::rename(dir1/file, dir2/file) after the scan has completed.     *)
(***************************************************************************)
external_rename ==
    /\ pc = "done"
    /\ moved = << >>
    /\ \E f \in Nodes, d \in Nodes :
           /\ ~IsDir(f) /\ IsDir(d)
           /\ NodeOf(f).par # 0
           /\ d # NodeOf(f).par
           /\ NodeOf(d).par = NodeOf(NodeOf(f).par).par
           /\ \A c \in Range(read_dir(d)) : NodeOf(c).name # NodeOf(f).name
           /\ moved' = << f, d >>
    /\ UNCHANGED << input, calls, pc, entries, file_paths, root_ino, scan_state, dirs_to_scan, senders,
                    waiting, active, exitedOk, exitedErr, hist, disk, histories, tasks >>

(***************************************************************************)
(* The RwLock around WorktreeState.  insert_dir, insert_file, the finalize *)
(* of scan_dir, the root_ino write and set_scan_state take the exclusive   *)
(* lock for their map and field writes only, so each is one step that      *)
(* needs the lock free of readers.  A read accessor takes the shared lock, *)
(* computes on the state and releases the lock when it returns.            *)
(***************************************************************************)
\* How many read accessor calls the clients make in one run.
MaxReads == 2

\* The accessors that take an entry id, and those that take none.
IdAccessors == { "entry_path", "abs_entry_path", "has_entry" }
Accessors == { "entry_count", "file_count", "next", "match_paths" }

Call(op, entry_id, at) == [op |-> op, id |-> entry_id, pc |-> at]

\* The calls that hold the shared lock.
Readers == { k \in 1..Len(calls) : calls[k].pc = "locked" }

\* self.0.write() returns once no reader holds the lock.
WriteGranted == Readers = {}

\* A client thread calls an accessor while the scan thread is running.
\* abs_entry_path first clones the root path (line 293).
accessor_call(op, entry_id) ==
    /\ Len(calls) < MaxReads
    /\ pc # "done"
    /\ calls' = Append(calls, Call(op, entry_id,
                                   IF op = "abs_entry_path" THEN "path" ELSE "read"))
    /\ UNCHANGED << input, files, pc, entries, file_paths, root_ino, scan_state, dirs_to_scan,
                    senders, waiting, active, exitedOk, exitedErr, hist >>

\* let mut path = self.0.read().path.clone(); path.pop(): the guard is
\* dropped at the end of the statement.
abs_entry_path_clone(k) ==
    /\ calls[k].pc = "path"
    /\ calls' = [calls EXCEPT ![k].pc = "read"]
    /\ UNCHANGED << input, files, pc, entries, file_paths, root_ino, scan_state, dirs_to_scan,
                    senders, waiting, active, exitedOk, exitedErr, hist >>

\* let state = self.0.read(): no writer holds the lock between two steps.
RwLock_read(k) ==
    /\ calls[k].pc = "read"
    /\ calls' = [calls EXCEPT ![k].pc = "locked"]
    /\ UNCHANGED << input, files, pc, entries, file_paths, root_ino, scan_state, dirs_to_scan,
                    senders, waiting, active, exitedOk, exitedErr, hist >>

\* The accessor's computation on the locked state comes to its end: the
\* loop of entry_path does so unless the parents form a cycle.
Returns(call) ==
    IF call.op \in { "entry_path", "abs_entry_path" }
    THEN entry_path(call.id).tag # "Diverges"
    ELSE TRUE

\* The accessor returns and its guard is dropped.
accessor_return(k) ==
    /\ calls[k].pc = "locked"
    /\ Returns(calls[k])
    /\ calls' = [calls EXCEPT ![k].pc = "done"]
    /\ UNCHANGED << input, files, pc, entries, file_paths, root_ino, scan_state, dirs_to_scan,
                    senders, waiting, active, exitedOk, exitedErr, hist >>

Next ==
    \/ scan_dirs_metadata_fails
    \/ scan_dirs_root_dir
    \/ scan_dirs_root_file
    \/ scan_dirs_collect_err
    \/ scan_dirs_collect_ok
    \/ scan_dirs_set_root_ino
    \/ set_scan_state_idle
    \/ recv_scan_dir
    \/ recv_scan_dir_read_dir_fails
    \/ worker_exit
    \/ \E a \in active : scan_dir_metadata_fails(a)
    \/ \E a \in active : scan_dir_child_dir(a)
    \/ \E a \in active : scan_dir_child_file(a)
    \/ \E a \in active : scan_dir_finalize(a)

Spec == Init /\ [][Next]_vars

\* The threads are scheduled by the operating system: a thread that can take
\* a step eventually takes one.
FairSpec == Spec /\ WF_vars(Next)

\* The scan, and the rename that test_rescan makes once the scan is done.
\* The rename is a step of the environment: nothing obliges it to happen.
RescanNext == Next \/ external_rename

RescanSpec == Init /\ [][RescanNext]_vars /\ WF_vars(Next)

\* The scan followed by clients that call load_history and save, as
\* test_save_file does once app.finish_pending_tasks() has returned: on its
\* tree, on the tree of test_rescan and on the tree whose root is the file,
\* with at most one injected I/O failure.  The calls may overlap one another.
FileCases == { 2, 3, 14 }

FilesInit == Init /\ fsId \in FileCases /\ Cardinality(faults) <= 1

FilesNext ==
    \/ Next
    \/ pc = "done" /\ \E entry_id \in Ids : load_history(entry_id)
    \/ \E k \in 1..Len(tasks) : load_history_abs_entry_path(k)
    \/ \E k \in 1..Len(tasks) : load_history_read(k)
    \/ \E k \in 1..Len(tasks) : load_history_insert(k)
    \/ pc = "done" /\ \E entry_id \in Ids, content \in Buffers : save(entry_id, content)
    \/ \E k \in 1..Len(tasks) : save_create(k)
    \/ \E k \in 1..Len(tasks) : save_write(k)

FilesSpec == FilesInit /\ [][FilesNext]_vars

\* The scan with client threads that call read accessors while it runs, on
\* the tree of test_rescan, the tree whose root is a file and the tree with
\* a nested mount, with at most one injected I/O failure.  A step of the
\* scan that writes WorktreeState waits for the exclusive lock.
LockCases == { 2, 3, 5 }

LockInit == Init /\ fsId \in LockCases /\ Cardinality(faults) <= 1

ScanSteps ==
    \/ scan_dirs_metadata_fails
    \/ WriteGranted /\ scan_dirs_root_dir
    \/ WriteGranted /\ scan_dirs_root_file
    \/ scan_dirs_collect_err
    \/ scan_dirs_collect_ok
    \/ WriteGranted /\ scan_dirs_set_root_ino
    \/ WriteGranted /\ set_scan_state_idle
    \/ recv_scan_dir
    \/ recv_scan_dir_read_dir_fails
    \/ worker_exit
    \/ \E a \in active : scan_dir_metadata_fails(a)
    \/ WriteGranted /\ \E a \in active : scan_dir_child_dir(a)
    \/ WriteGranted /\ \E a \in active : scan_dir_child_file(a)
    \/ WriteGranted /\ \E a \in active : scan_dir_finalize(a)

AccessorSteps ==
    \/ \E k \in 1..Len(calls) : abs_entry_path_clone(k)
    \/ \E k \in 1..Len(calls) : RwLock_read(k)
    \/ \E k \in 1..Len(calls) : accessor_return(k)

LockNext ==
    \/ ScanSteps
    \/ \E op \in IdAccessors, entry_id \in Ids : accessor_call(op, entry_id)
    \/ \E op \in Accessors : accessor_call(op, None)
    \/ AccessorSteps

\* Every thread that can take a step eventually takes one; nothing obliges
\* a client to call.
LockSpec == LockInit /\ [][LockNext]_vars /\ WF_vars(ScanSteps) /\ WF_vars(AccessorSteps)

(***************************************************************************)
(* Vocabulary of the properties                                            *)
(***************************************************************************)
\* scan_dirs has inserted the entry of the root path.
RootInserted == pc # "start" /\ <<"stat", Root>> \notin faults

\* The worker pool has been started (the root is a directory).
PoolStarted == RootInserted /\ IsDir(Root)

\* No worker thread is running.
NoWorkerRuns == waiting = 0 /\ active = {}

\* d is a proper ancestor of n in the file system.
RECURSIVE IsAncestor(_, _)
IsAncestor(d, n) ==
    IF NodeOf(n).par = 0 THEN FALSE
    ELSE NodeOf(n).par = d \/ IsAncestor(d, NodeOf(n).par)

(***************************************************************************)
(* C1.  Referential integrity, children to parent: in every reachable      *)
(* state, for every Dir entry D, every id in D's child list (a list is     *)
(* non-empty only once scan_dir has finalized it) is a key of the entry    *)
(* map and the entry stored under it has parent id D.                      *)
(***************************************************************************)
C1_ChildrenPointBack ==
    \A d \in DOMAIN entries :
        entries[d].tag = "Dir" =>
            \A c \in Range(entries[d].children) :
                c \in DOMAIN entries /\ entries[c].parent = d

ListedBy(i) ==
    LET p == entries[i].parent
    IN  p \in DOMAIN finalizedBy /\ finalizedBy[p] = insertedBy[i]

Parentless == { i \in DOMAIN entries : entries[i].parent = None }

C3_UniqueRoot ==
    /\ Cardinality(Parentless) <= 1
    /\ RootInserted =>
           /\ Parentless = { NodeOf(Root).ino }
           /\ entries[NodeOf(Root).ino].name = root_name

(***************************************************************************)
(* C4.  Ignoring is monotone downward: whenever a directory (the root      *)
(* included) was inserted as ignored, every entry inserted for a file or   *)
(* directory below it, at any depth, was inserted as ignored.              *)
(***************************************************************************)
C4_IgnoreMonotone ==
    \A d \in DOMAIN marked : \A n \in DOMAIN marked :
        (IsDir(d) /\ IsAncestor(d, n) /\ marked[d]) => marked[n]

(***************************************************************************)
(* C5.  Every insert_dir / insert_file sets Scan-State to Scanning; Idle   *)
(* is written at most once, only when no worker runs any more (all 16 have *)
(* exited when the pool was started); after the Idle write nothing is      *)
(* inserted and Scan-State stays Idle.                                     *)
(***************************************************************************)
C5_IdleOnceAfterWorkers ==
    /\ [][marked' # marked => scan_state' = "Scanning"]_vars
    /\ [](idleWrites <= 1 /\ (scan_state = "Idle" <=> idleWrites = 1))
    /\ [](scan_state = "Idle" =>
            /\ waiting = 0 /\ active = {}
            /\ PoolStarted => exitedOk + exitedErr = NumWorkers)
    /\ [][scan_state = "Idle" =>
            /\ scan_state' = "Idle"
            /\ entries' = entries /\ file_paths' = file_paths /\ marked' = marked]_vars

\* Idle after a walk in which workers inserted entries and all 16 exited.
C5_Witness ==
    /\ scan_state = "Idle"
    /\ exitedOk + exitedErr = NumWorkers
    /\ Cardinality(DOMAIN entries) >= 4

(***************************************************************************)
(* C6.  Under fair scheduling the background scan terminates whatever I/O  *)
(* call fails: every worker exits and Scan-State becomes Idle.             *)
(***************************************************************************)
C6_ScanTerminates ==
    <>(scan_state = "Idle" /\ waiting = 0 /\ active = {} /\ pc = "done")

\* Idle is reached in a run where a worker hit an I/O failure while others
\* went on.
C6_Witness ==
    /\ scan_state = "Idle"
    /\ exitedErr > 0
    /\ exitedOk > 0
    /\ scanned # {}

(***************************************************************************)
(* C7.  An I/O failure stops only its branch: when the scan is Idle, every *)
(* directory that neither failed (its listing, or the stat of one of its   *)
(* children) nor lies below a directory that failed has been listed, has   *)
(* all its children inserted and its child list finalized.                 *)
(***************************************************************************)
Failing(d) ==
    \/ <<"list", d>> \in faults
    \/ \E c \in Range(read_dir(d)) : <<"stat", c>> \in faults

InFailedBranch(d) ==
    \/ <<"stat", Root>> \in faults
    \/ Failing(d)
    \/ \E a \in Nodes : IsAncestor(a, d) /\ Failing(a)

FullyListed(d) ==
    /\ d \in scanned
    /\ \A c \in Range(read_dir(d)) : c \in DOMAIN marked

C7_OnlyBranchStops ==
    scan_state = "Idle" =>
        \A d \in Nodes : (IsDir(d) /\ ~InFailedBranch(d)) => FullyListed(d)

(***************************************************************************)
(* C8.  Every job pushed onto the queue is received by exactly one worker  *)
(* by the time the scan completes: never by two, never left unprocessed.   *)
(***************************************************************************)
\* A job is pushed for the root and for every directory scan_dir inserts.
Pushed(n) == IsDir(n) /\ n \in DOMAIN marked

C8_EachJobOnce ==
    /\ \A n \in Nodes : recvCount[n] <= 1
    /\ (PoolStarted /\ exitedOk + exitedErr = NumWorkers) =>
           \A n \in Nodes : Pushed(n) => recvCount[n] = 1

(***************************************************************************)
(* C9.  The queue never closes early: a worker leaves through a failed     *)
(* receive only when the queue is empty and no job is in progress; so in   *)
(* an error-free run, once all workers have exited, every discovered       *)
(* directory has been listed to the end, all its children are inserted,    *)
(* and the child list its scan_dir wrote is its listing.                   *)
(***************************************************************************)
ListingIds(d) == [i \in 1..Len(read_dir(d)) |-> NodeOf(read_dir(d)[i]).ino]

C9_QueueNeverClosesEarly ==
    /\ exitedOk > 0 => dirs_to_scan = << >> /\ active = {}
    /\ (faults = {} /\ PoolStarted /\ exitedOk + exitedErr = NumWorkers) =>
           \A d \in Nodes : Pushed(d) =>
               /\ FullyListed(d)
               /\ \A i \in DOMAIN finalizedBy :
                      finalizedBy[i] = d => entries[i].children = ListingIds(d)

\* An error-free walk of the apple/banana/fennel tree has ended: receives
\* failed only after carrot, two levels down, was listed.
C9_Witness ==
    /\ fsId = 1
    /\ faults = {}
    /\ exitedOk = NumWorkers
    /\ 4 \in scanned

(***************************************************************************)
(* C10.  The id of the root entry is recorded in root_ino only after every *)
(* worker has exited, and on every execution that inserted a root entry it *)
(* has been recorded by the time Scan-State is Idle.                       *)
(***************************************************************************)
C10_RootRecordedByIdle ==
    /\ root_ino # None =>
           /\ root_ino = NodeOf(Root).ino
           /\ waiting = 0 /\ active = {}
           /\ PoolStarted => exitedOk + exitedErr = NumWorkers
    /\ (scan_state = "Idle" /\ RootInserted) => root_ino # None

(***************************************************************************)
(* C11.  The tree readers observe only grows during a scan: across every   *)
(* step no id leaves the entry map, the list of search records is only     *)
(* appended to, and a child list that a finalize has written is never      *)
(* shrunk or replaced afterwards.                                          *)
(***************************************************************************)
IsPrefix(s, t) == Len(s) <= Len(t) /\ SubSeq(t, 1, Len(s)) = s

C11_GrowsMonotonically ==
    [][ /\ DOMAIN entries \subseteq DOMAIN entries'
        /\ IsPrefix(file_paths, file_paths')
        /\ \A d \in DOMAIN finalizedBy :
               /\ entries'[d].tag = "Dir"
               /\ entries'[d].children = entries[d].children ]_vars

(***************************************************************************)
(* C12.  After an external rename has moved a file the completed scan      *)
(* tracks from its directory into a sibling directory (test_rescan:        *)
(* dir1/file to dir2/file, entry id 3), abs_entry_path of the file's id     *)
(* eventually returns the new location.                                    *)
(***************************************************************************)
C12_RenameReflected ==
    (fsId = 2 /\ faults = {} /\ moved = << 3, 4 >>)
        ~> (fsId = 2 /\ abs_entry_path(3) = Ok(disk_path(3)))

(***************************************************************************)
(* C13.  For every file entry id and every sequence of load_history and    *)
(* save calls on it (each call returns before the next is made): when a    *)
(* save(id, content) has completed and the next call is load_history(id),  *)
(* the history it returns has the saved content as its base text.          *)
(***************************************************************************)
C13_LoadReturnsSaved ==
    \A k \in 2..Len(tasks) :
        ( /\ \A j \in 1..Len(tasks) : tasks[j].quiet
          /\ tasks[k - 1].op = "save" /\ tasks[k - 1].result.tag = "Ok"
          /\ tasks[k].op = "load" /\ tasks[k].id = tasks[k - 1].id
          /\ tasks[k].pc = "done" )
        => tasks[k].result = Ok(tasks[k - 1].content)

(***************************************************************************)
(* C14.  The Search Feed stays in sync with the Entry Store: in every      *)
(* reachable state each File entry has exactly one search record with its  *)
(* id and each search record's id is the id of a File entry, so that       *)
(* file_count() is the number of File entries; and once an error-free scan *)
(* has completed file_count() is the number of non-directories below the   *)
(* root path (4 in the apple/date/endive/grape tree).                      *)
(***************************************************************************)
FileEntries == { i \in DOMAIN entries : entries[i].tag = "File" }

RecordsOf(i) == { k \in 1..Len(file_paths) : file_paths[k].ino = i }

C14_FeedInSync ==
    /\ \A i \in FileEntries : Cardinality(RecordsOf(i)) = 1
    /\ \A k \in 1..Len(file_paths) : file_paths[k].ino \in FileEntries
    /\ file_count = Cardinality(FileEntries)
    /\ (faults = {} /\ pc = "done") =>
           file_count = Cardinality({ n \in Nodes : ~IsDir(n) })
    /\ (fsId = 1 /\ faults = {} /\ pc = "done") => file_count = 4

(***************************************************************************)
(* C15.  As claimed: scanning a root path that is a plain file produces,   *)
(* once Idle, a tree of exactly one entry (a File with no parent),         *)
(* file_count() = 1 and the root id recorded; no job is ever queued and no *)
(* worker is ever started.                                                 *)
(***************************************************************************)
NoJobNoWorker ==
    /\ dirs_to_scan = << >> /\ senders = 0
    /\ waiting = 0 /\ active = {} /\ exitedOk = 0 /\ exitedErr = 0
    /\ \A n \in Nodes : recvCount[n] = 0

OneFileTree ==
    /\ DOMAIN entries = { NodeOf(Root).ino }
    /\ entries[NodeOf(Root).ino].tag = "File"
    /\ entries[NodeOf(Root).ino].parent = None
    /\ entries[NodeOf(Root).ino].name = root_name
    /\ file_count = 1
    /\ root_ino = NodeOf(Root).ino

C15_RootFileOneEntry ==
    ~IsDir(Root) =>
        /\ NoJobNoWorker
        /\ scan_state = "Idle" => OneFileTree

(***************************************************************************)
(* C15, amended.  Scanning a root path that is a plain file whose metadata *)
(* can be read produces, once Idle, a tree of exactly one entry (a File    *)
(* with no parent), file_count() = 1 and the root id recorded; when        *)
(* reading the root's metadata fails, Idle is reached with an empty tree,  *)
(* file_count() = 0 and no root id.  In both cases no job is ever queued   *)
(* and no worker is ever started.                                          *)
(***************************************************************************)
C15_RootFileOneEntryIfStat ==
    ~IsDir(Root) =>
        /\ NoJobNoWorker
        /\ scan_state = "Idle" =>
               IF <<"stat", Root>> \in faults
               THEN entries = << >> /\ file_count = 0 /\ root_ino = None
               ELSE OneFileTree

\* Idle after the scan of the root path /tmp/file1, a regular file.
C15_Witness ==
    /\ ~IsDir(Root)
    /\ scan_state = "Idle"
    /\ OneFileTree
    /\ NoJobNoWorker

(***************************************************************************)
(* C16.  After an error-free scan, for every entry E discovered at the     *)
(* relative location p below the root, entry_path(E) is the final          *)
(* component of the configured root path followed by the names along p,    *)
(* and abs_entry_path(E) is the configured root path joined with p.        *)
(***************************************************************************)
\* The names along the location of node n below the root.
RECURSIVE NamesBelowRoot(_)
NamesBelowRoot(n) ==
    IF n = Root THEN << >>
    ELSE Append(NamesBelowRoot(NodeOf(n).par), NodeOf(n).name)

C16_PathsOfEntries ==
    (faults = {} /\ pc = "done") =>
        \A n \in Nodes :
            /\ entry_path(NodeOf(n).ino)
                   = Ok(<< FS.path[Len(FS.path)] >> \o NamesBelowRoot(n))
            /\ abs_entry_path(NodeOf(n).ino) = Ok(FS.path \o NamesBelowRoot(n))

(***************************************************************************)
(* C17.  A caller never gets a crash from a missing entry:                 *)
(* WorktreeHandle::file(id) returns an error when id is absent from the    *)
(* entry map and a FileHandle when it is present, and FileHandle::path     *)
(* never panics on a handle obtained from file().                          *)
(***************************************************************************)
TreeIds == { NodeOf(n).ino : n \in Nodes }

C17_FileNeverPanics ==
    \A entry_id \in TreeIds :
        /\ entry_id \notin DOMAIN entries => file(entry_id).tag = "Err"
        /\ entry_id \in DOMAIN entries => file(entry_id) = Ok(entry_id)
        /\ file(entry_id).tag = "Ok" => FileHandle_path(entry_id).tag # "Panic"

(***************************************************************************)
(* C18.  Every directory named ".git" that the scan inserts, the root      *)
(* included, is marked ignored whatever the patterns match, and the scan   *)
(* job created for it carries no ignore context.                           *)
(***************************************************************************)
\* The jobs that exist: in the channel, or inside a scan_dir call.
Jobs == Range(dirs_to_scan) \cup { a.job : a \in active }

C18_GitForcedIgnored ==
    /\ \A n \in DOMAIN marked : (IsDir(n) /\ name_of(n) = ".git") => marked[n]
    /\ \A job \in Jobs : name_of(job.node) = ".git" => ~job.ignore

(***************************************************************************)
(* C19.  The prefix-skip count match_paths passes for a tree is 0 whenever *)
(* more than one tree is given; for a single tree whose root is a          *)
(* directory it is, once the scan is Idle, 1 when the root directory's     *)
(* name is "/" and the name's character count plus 1 otherwise, and it     *)
(* exceeds the length of no search record's path.                          *)
(***************************************************************************)
C19_PrefixSkip ==
    /\ \A trees \in 2..MaxTrees : skip_prefix(trees) = 0
    /\ (scan_state = "Idle" /\ PoolStarted) =>
           /\ skip_prefix(1) = IF root_name = "/" THEN 1 ELSE chars(root_name) + 1
           /\ \A k \in 1..Len(file_paths) :
                  skip_prefix(1) <= path_chars_len(file_paths[k].path)

(***************************************************************************)
(* C20.  entry_path(id) always terminates and returns the complete path or *)
(* an error: it errs exactly when id or an id on its parent chain is       *)
(* absent from the entry map; in every reachable state the parent chain of *)
(* every present entry is complete and acyclic, so that entry_path         *)
(* succeeds for every id present in the map.                               *)
(***************************************************************************)
C20_EntryPathTotal ==
    \A entry_id \in TreeIds :
        /\ entry_path(entry_id).tag \in {"Ok", "Err"}
        /\ entry_id \in DOMAIN entries => entry_path(entry_id).tag = "Ok"
        /\ entry_id \notin DOMAIN entries => entry_path(entry_id).tag = "Err"

(***************************************************************************)
(* C21.  load_history does no single-flight.  Every load_history call      *)
(* whose id is cached returns the cached history at once, without a file   *)
(* read; every other call (a first-load) goes on to resolve the path, and  *)
(* whatever other loads of the id do meanwhile, it takes its text from a   *)
(* file read of its own (the text on disk at that moment), returns Ok only *)
(* with that text and after inserting it, and its insert replaces what the *)
(* cache held for the id.  The cache changes in no other way.              *)
(***************************************************************************)
FirstLoads(id) ==
    { k \in 1..Len(tasks) : tasks[k].op = "load" /\ tasks[k].id = id
                              /\ tasks[k].pc \in {"resolve", "read", "insert"} }

C21_NoSingleFlight ==
    [][ /\ \A k \in 1..Len(tasks') :
              tasks'[k].op = "load" =>
                  IF k > Len(tasks)
                  THEN IF tasks'[k].id \in DOMAIN histories
                       THEN /\ tasks'[k].pc = "done"
                            /\ tasks'[k].result = Ok(histories[tasks'[k].id])
                            /\ tasks'[k].path.tag = "Pending"
                       ELSE tasks'[k].pc = "resolve"
                  ELSE /\ (tasks[k].pc = "read" /\ tasks'[k].pc = "insert")
                          => /\ is_file_at(tasks[k].path.val)
                             /\ tasks'[k].text = disk[ino_at(tasks[k].path.val)]
                       /\ (tasks[k].pc # "done" /\ tasks'[k].pc = "done"
                              /\ tasks'[k].result.tag = "Ok")
                          => /\ tasks[k].pc = "insert"
                             /\ tasks'[k].result = Ok(tasks[k].text)
                             /\ tasks[k].id \in DOMAIN histories'
                             /\ histories'[tasks[k].id] = tasks[k].text
                       /\ (tasks[k].pc = "insert") => tasks'[k].text = tasks[k].text
        /\ histories' # histories
              => \E k \in 1..Len(tasks) :
                     /\ tasks[k].op = "load" /\ tasks[k].pc = "insert"
                     /\ tasks'[k].pc = "done"
                     /\ histories' = MapInsert(histories, tasks[k].id, tasks[k].text)
      ]_vars

\* Two first-loads of one id overlapped, each read the file for itself and
\* they returned different texts (a save ran between the two reads); both
\* have inserted, and the cache holds one of the two texts.
C21_Witness ==
    /\ Len(tasks) >= 2
    /\ tasks[1].op = "load" /\ tasks[2].op = "load" /\ tasks[1].id = tasks[2].id
    /\ ~tasks[2].quiet
    /\ tasks[1].pc = "done" /\ tasks[2].pc = "done"
    /\ tasks[1].result.tag = "Ok" /\ tasks[2].result.tag = "Ok"
    /\ tasks[1].result # tasks[2].result
    /\ tasks[1].path.tag = "Ok" /\ tasks[2].path.tag = "Ok"
    /\ FirstLoads(tasks[1].id) = {}
    /\ histories[tasks[1].id] \in { tasks[1].result.val, tasks[2].result.val }

(***************************************************************************)
(* C22.  Traversal with iter().  While no root id is recorded the iterator *)
(* yields nothing, and an iterator that has started on an empty stack      *)
(* never yields.  Once the scan thread is done and the root id is          *)
(* recorded, the traversal ends without a panic; its events are the        *)
(* depth-first walk from the root through the child lists (Push of an      *)
(* entry, the walks of its children in list order, Pop), no entry is       *)
(* pushed twice, Pushes and Pops are balanced; and every item of files()   *)
(* carries the path that entry_path gives for its entry.                   *)
(***************************************************************************)
RECURSIVE depth_first(_)
RECURSIVE depth_first_children(_, _)
depth_first(entry_id) ==
    << Push(entry_id, entries[entry_id]) >>
    \o (IF entries[entry_id].tag = "Dir"
        THEN depth_first_children(entries[entry_id].children, 1) ELSE << >>)
    \o << Pop >>

depth_first_children(children, i) ==
    IF i > Len(children) THEN << >>
    ELSE depth_first(children[i]) \o depth_first_children(children, i + 1)

Pushes(events, n) == { i \in 1..n : events[i].tag = "Push" }
Pops(events, n) == { i \in 1..n : events[i].tag = "Pop" }

C22_Traversal ==
    /\ root_ino = None
          => /\ Iter_next(iter).item = << >>
             /\ Iter_collect(iter, << >>) = Ok(<< >>)
    /\ Iter_next([stack |-> << >>, started |-> TRUE]).item = << >>
    /\ (pc = "done" /\ root_ino # None)
          => LET t == Iter_collect(iter, << >>)
             IN  /\ t.tag = "Ok"
                 /\ t.val = depth_first(root_ino)
                 /\ \A i, j \in Pushes(t.val, Len(t.val)) :
                        t.val[i].entry_id = t.val[j].entry_id => i = j
                 /\ Cardinality(Pushes(t.val, Len(t.val)))
                      = Cardinality(Pops(t.val, Len(t.val)))
                 /\ \A n \in 1..Len(t.val) :
                        Cardinality(Pushes(t.val, n)) >= Cardinality(Pops(t.val, n))
                 /\ LET items == FilesIter_collect(t.val, 1, << >>)
                    IN  \A i \in 1..Len(items) :
                            /\ entries[items[i].entry_id].tag = "File"
                            /\ entry_path(items[i].entry_id) = Ok(items[i].path)

(***************************************************************************)
(* C23.  Lock scope.  Each insert is atomic to readers: in every state a   *)
(* reader can lock, every File entry has a search record with its id.      *)
(* And no reader is stuck at the lock or inside it: every read accessor    *)
(* called while the scan is in flight eventually returns.                  *)
(***************************************************************************)
FileHasRecord ==
    \A i \in DOMAIN entries :
        entries[i].tag = "File" => \E r \in 1..Len(file_paths) : file_paths[r].ino = i

C23_LockScope ==
    /\ []FileHasRecord
    /\ \A k \in 1..MaxReads :
           (Len(calls) >= k) ~> (Len(calls) >= k /\ calls[k].pc = "done")

====
